---- MODULE Spec2Model ----
(***************************************************************************)
(* Model of src/lib/pool.js: RewardsPool, its two variants, the factory    *)
(* fromPool, the read operations (usdValueOf, percentageOwnership,         *)
(* summary) and the approve-then-stake flow approveAndStake.               *)
(*                                                                         *)
(* Javascript values are modelled as follows: an amount (ethers BigNumber) *)
(* is a natural number, an absent argument is NoAmount, an absent string   *)
(* field is the string undefined.  A promise is a record [st, val, err]    *)
(* with st one of "none" (not issued), "pending", "ok", "err".             *)
(***************************************************************************)
EXTENDS Integers, Sequences, FiniteSets, TLC

\* ------------------------------------------------------------------ bounds
MaxBal == 2
MaxEarned == 2
MaxChainSteps == 1

\* ------------------------------------------------------- javascript values
undefined == "undefined"
NoAmount == 0 - 1
\* ethers.constants.MaxUint256: stands for 2^256 - 1, above every amount
MaxUint256 == 1000000

NonePromise == [st |-> "none", val |-> 0, err |-> ""]
Pending == [st |-> "pending", val |-> 0, err |-> ""]
Resolved(v) == [st |-> "ok", val |-> v, err |-> ""]
Rejected(e) == [st |-> "err", val |-> 0, err |-> e]

\* truthiness of a string-valued field: undefined and "" are falsy
TruthyStr(s) == s # undefined /\ s # ""

\* ------------------------------------------------------------- descriptors
PoolAddress == "0xPool"
Addresses == {"0xAlice", "0xBob"}
Me == "0xAlice"

TypeTags == {undefined, "autocompounding", "auto-compounding", "harvest", "other"}
PoolTypeTags == {undefined, "auto-compounding", "harvest"}
PoolNames == {undefined, "", "Farm"}

Assets == [name : {"fDAI"}, underlying : BOOLEAN]
RewardAsset == [name |-> "FARM", underlying |-> FALSE]

Descriptors ==
  [address : {PoolAddress}, name : PoolNames, asset : Assets,
   rewardAsset : {RewardAsset}, type : TypeTags, poolType : PoolTypeTags]

\* Token.fromAsset(asset, provider): the adapter of one asset; it has the
\* underlyingBalanceOf capability exactly when the asset is a share token
TokenFromAsset(asset) ==
  [name |-> asset.name, underlyingBalanceOf |-> asset.underlying]

\* ------------------------------------------------------------ construction
NoPool ==
  [address |-> undefined, name |-> undefined, abi |-> undefined,
   pool |-> undefined, lptoken |-> undefined, reward |-> undefined,
   underlyingBalanceOf |-> FALSE, earnedRewards |-> undefined]

\* constructor(pool, abi, provider), lines 7-25; earnedRewards is the
\* prototype's (undefined on the base class)
RewardsPool(pool, abi) ==
  [address |-> pool.address,
   name |-> IF TruthyStr(pool.name) THEN pool.name ELSE pool.asset.name,
   abi |-> abi,
   pool |-> pool,
   lptoken |-> TokenFromAsset(pool.asset),
   reward |-> TokenFromAsset(pool.rewardAsset),
   underlyingBalanceOf |-> TokenFromAsset(pool.asset).underlyingBalanceOf,
   earnedRewards |-> undefined]

\* class AutoCompoundingRewardsPool: earnedRewards() returns BigNumber 0
AutoCompoundingRewardsPool(pool) ==
  [RewardsPool(pool, "AUTO_REWARDS_ABI") EXCEPT !.earnedRewards = "zero"]

\* class HarvestRewardsPool: this.earnedRewards = this.earned
HarvestRewardsPool(pool) ==
  [RewardsPool(pool, "REWARDS_ABI") EXCEPT !.earnedRewards = "earned"]

\* the dispatch with the tag spelled with a hyphen
fromPoolHyphenTag(pool) ==
  IF pool.type = "auto-compounding"
  THEN AutoCompoundingRewardsPool(pool)
  ELSE HarvestRewardsPool(pool)

\* the dispatch with the auto-compounding variant as the default
fromPoolDefaultAuto(pool) ==
  IF pool.type = "harvest"
  THEN HarvestRewardsPool(pool)
  ELSE AutoCompoundingRewardsPool(pool)

\* static fromPool(pool, provider): switch (pool.type)
fromPool(pool) ==
  IF pool.type = "autocompounding"
  THEN AutoCompoundingRewardsPool(pool)
  ELSE HarvestRewardsPool(pool)

\* ------------------------------------------------------------------- state
VARIABLES
  pool,        \* the RewardsPool instance (NoPool before construction)
  isSigner,    \* ethers.Signer.isSigner(this.provider)
  wallet,      \* chain: lptoken balance, per address
  allowance,   \* chain: lptoken allowance caller -> pool
  staked,      \* chain: the pool contract's balanceOf, per address
  totalSupply, \* chain: the pool contract's totalSupply
  earned,      \* chain: the pool contract's earned, per address
  chainSteps,  \* number of third-party chain mutations so far
  txs,         \* transactions submitted, in submission order
  calls,       \* the approveAndStake calls, per call id
  op,          \* the read operation in flight (usdValueOf, ...)
  rd,          \* the promise of every read a read operation issues
  ubOut,       \* promise of underlying(address) inside summary
  poOut,       \* promise of percentageOwnership(address)
  uvOut,       \* promise of usdValueOf(address)
  heap,        \* every pool instance the cohort factories constructed
  returned     \* the collections the cohort factories returned so far

factoryVars == <<heap, returned>>
chainVars == <<wallet, allowance, staked, totalSupply, earned, chainSteps>>
queryVars == <<op, rd, ubOut, poOut, uvOut>>


AmountArgs == {NoAmount} \cup (0 .. MaxBal + 1)

IdleCall ==
  [pc |-> "idle", amntArg |-> NoAmount, approveForever |-> FALSE,
   issued |-> {}, allowanceP |-> NonePromise, balanceP |-> NonePromise,
   allowance |-> 0, balance |-> 0, amnt |-> NoAmount,
   approveTx |-> 0, stakeTx |-> 0,
   ret |-> "running", val |-> 0, err |-> ""]

\* a submitted transaction; st is the state of the promise the submitting
\* call holds, which settles when the transaction has executed or failed
Tx(c, kind, target, amount) ==
  [call |-> c, kind |-> kind, target |-> target, amount |-> amount,
   st |-> "pending", err |-> ""]

\* ---------------------------------------------------------- approveAndStake
\* the signer check with its negation lost
NoSignerInverted == isSigner

\* line 195: !ethers.Signer.isSigner(this.provider)
NoSigner == ~isSigner

\* lines 194-204: the signer check, then both reads are issued at once
ApproveAndStake(c, amnt, approveForever) ==
  /\ calls[c].pc = "idle"
  /\ pool # NoPool
  /\ op.pc = "idle"
  /\ IF NoSigner
     THEN calls' = [calls EXCEPT ![c] =
            [@ EXCEPT !.pc = "done", !.amntArg = amnt,
                      !.approveForever = approveForever,
                      !.ret = "error", !.err = "No signer"]]
     ELSE calls' = [calls EXCEPT ![c] =
            [@ EXCEPT !.pc = "reads", !.amntArg = amnt,
                      !.approveForever = approveForever,
                      !.issued = {"allowances", "balanceOf"},
                      !.allowanceP = Pending, !.balanceP = Pending]]
  /\ UNCHANGED <<factoryVars, pool, isSigner, chainVars, txs, queryVars>>

\* line 202: this.lptoken.allowances(me, this.address) resolves
AllowancesResolves(c) ==
  /\ calls[c].allowanceP.st = "pending"
  /\ calls' = [calls EXCEPT ![c].allowanceP = Resolved(allowance)]
  /\ UNCHANGED <<factoryVars, pool, isSigner, chainVars, txs, queryVars>>

\* line 202: the allowance read fails upstream
AllowancesRejects(c) ==
  /\ calls[c].allowanceP.st = "pending"
  /\ calls' = [calls EXCEPT ![c].allowanceP = Rejected("allowances failed")]
  /\ UNCHANGED <<factoryVars, pool, isSigner, chainVars, txs, queryVars>>

\* line 203: this.lptoken.balanceOf(me) resolves
BalanceOfResolves(c) ==
  /\ calls[c].balanceP.st = "pending"
  /\ calls' = [calls EXCEPT ![c].balanceP = Resolved(wallet[Me])]
  /\ UNCHANGED <<factoryVars, pool, isSigner, chainVars, txs, queryVars>>

\* line 203: the wallet-balance read fails upstream
BalanceOfRejects(c) ==
  /\ calls[c].balanceP.st = "pending"
  /\ calls' = [calls EXCEPT ![c].balanceP = Rejected("balanceOf failed")]
  /\ UNCHANGED <<factoryVars, pool, isSigner, chainVars, txs, queryVars>>

\* the defaulting without the isZero test
DefaultAmountAbsentOnly(amnt, balance) ==
  IF amnt = NoAmount THEN balance ELSE amnt

\* line 206: if (!amnt || amnt.isZero()) amnt = balance
DefaultAmount(amnt, balance) ==
  IF amnt = NoAmount \/ amnt = 0 THEN balance ELSE amnt

\* the funds check with its operands swapped
InsufficientFundsSwapped(balance, amnt) == amnt < balance

\* line 207: balance.lt(amnt)
InsufficientFunds(balance, amnt) == balance < amnt

\* the approval test without the approveForever flag
NeedsApprovalIgnoresForever(approveForever, allow, balance) == allow < balance

\* the approval test with its comparison turned round
NeedsApprovalSwapped(approveForever, allow, balance) ==
  approveForever \/ balance < allow

\* line 210: approveForever || allowance.lt(balance)
NeedsApproval(approveForever, allow, balance) ==
  approveForever \/ allow < balance

\* line 213: approveForever ? ethers.constants.MaxUint256 : amnt
ApprovalAmount(approveForever, amnt) ==
  IF approveForever THEN MaxUint256 ELSE amnt

\* the stake submitted ahead of the approval
SubmittedStakeFirst(c, approveForever, allow, balance, amnt) ==
  <<Tx(c, "stake", pool.address, amnt)>>
  \o (IF NeedsApproval(approveForever, allow, balance)
      THEN <<Tx(c, "approve", pool.address, ApprovalAmount(approveForever, amnt))>>
      ELSE << >>)

\* the stake held back while an approval is outstanding
SubmittedApprovalOnly(c, approveForever, allow, balance, amnt) ==
  IF NeedsApproval(approveForever, allow, balance)
  THEN <<Tx(c, "approve", pool.address, ApprovalAmount(approveForever, amnt))>>
  ELSE <<Tx(c, "stake", pool.address, amnt)>>

\* the stake submitted once more after the stake
SubmittedStakeTwice(c, approveForever, allow, balance, amnt) ==
  (IF NeedsApproval(approveForever, allow, balance)
   THEN <<Tx(c, "approve", pool.address, ApprovalAmount(approveForever, amnt))>>
   ELSE << >>)
  \o <<Tx(c, "stake", pool.address, amnt), Tx(c, "stake", pool.address, amnt)>>

\* lines 209-216: the transactions submitted, in submission order
Submitted(c, approveForever, allow, balance, amnt) ==
  (IF NeedsApproval(approveForever, allow, balance)
   THEN <<Tx(c, "approve", pool.address, ApprovalAmount(approveForever, amnt))>>
   ELSE << >>)
  \o <<Tx(c, "stake", pool.address, amnt)>>

\* the position in txs of the first of the new transactions of a kind, or 0
\* (approveTx stays undefined when no approval is issued)
TxIndex(new, kind, base) ==
  IF \E i \in 1 .. Len(new) : new[i].kind = kind
  THEN base + (CHOOSE i \in 1 .. Len(new) : new[i].kind = kind)
  ELSE 0

\* a rejected read swallowed: the call ends returning undefined
ReadsRejectSwallow(c) ==
  /\ calls[c].pc = "reads"
  /\ \E p \in {calls[c].allowanceP, calls[c].balanceP} :
       /\ p.st = "err"
       /\ calls' = [calls EXCEPT ![c] =
            [@ EXCEPT !.pc = "done", !.ret = "undefined"]]
  /\ UNCHANGED <<factoryVars, pool, isSigner, chainVars, txs, queryVars>>

\* lines 201-204: Promise.all rejects with the error of a rejected read
ReadsReject(c) ==
  /\ calls[c].pc = "reads"
  /\ \E p \in {calls[c].allowanceP, calls[c].balanceP} :
       /\ p.st = "err"
       /\ calls' = [calls EXCEPT ![c] =
            [@ EXCEPT !.pc = "done", !.ret = "error", !.err = p.err]]
  /\ UNCHANGED <<factoryVars, pool, isSigner, chainVars, txs, queryVars>>

\* lines 201-218: both reads resolved; the code runs up to `await approveTx`
ReadsResolve(c) ==
  /\ calls[c].pc = "reads"
  /\ calls[c].allowanceP.st = "ok"
  /\ calls[c].balanceP.st = "ok"
  /\ LET allow == calls[c].allowanceP.val
         balance == calls[c].balanceP.val
         amnt == DefaultAmount(calls[c].amntArg, balance)
         new == Submitted(c, calls[c].approveForever, allow, balance, amnt)
     IN IF InsufficientFunds(balance, amnt)
        THEN /\ calls' = [calls EXCEPT ![c] =
                  [@ EXCEPT !.pc = "done", !.allowance = allow,
                            !.balance = balance, !.amnt = amnt,
                            !.ret = "undefined"]]
             /\ txs' = txs
        ELSE /\ calls' = [calls EXCEPT ![c] =
                  [@ EXCEPT !.pc = "awaitApprove", !.allowance = allow,
                            !.balance = balance, !.amnt = amnt,
                            !.approveTx = TxIndex(new, "approve", Len(txs)),
                            !.stakeTx = TxIndex(new, "stake", Len(txs))]]
             /\ txs' = txs \o new
  /\ UNCHANGED <<factoryVars, pool, isSigner, chainVars, queryVars>>

\* line 218: await approveTx (undefined when no approval was issued)
AwaitApprove(c) ==
  /\ calls[c].pc = "awaitApprove"
  /\ \/ /\ calls[c].approveTx = 0
        /\ calls' = [calls EXCEPT ![c].pc = "awaitStake"]
     \/ /\ calls[c].approveTx # 0
        /\ txs[calls[c].approveTx].st = "ok"
        /\ calls' = [calls EXCEPT ![c].pc = "awaitStake"]
     \/ /\ calls[c].approveTx # 0
        /\ txs[calls[c].approveTx].st = "err"
        /\ calls' = [calls EXCEPT ![c] =
             [@ EXCEPT !.pc = "done", !.ret = "error",
                       !.err = txs[calls[c].approveTx].err]]
  /\ UNCHANGED <<factoryVars, pool, isSigner, chainVars, txs, queryVars>>

\* line 219: return await stakeTx
AwaitStake(c) ==
  /\ calls[c].pc = "awaitStake"
  /\ calls[c].stakeTx # 0
  /\ \/ /\ txs[calls[c].stakeTx].st = "ok"
        /\ calls' = [calls EXCEPT ![c] =
             [@ EXCEPT !.pc = "done", !.ret = "value", !.val = calls[c].stakeTx]]
     \/ /\ txs[calls[c].stakeTx].st = "err"
        /\ calls' = [calls EXCEPT ![c] =
             [@ EXCEPT !.pc = "done", !.ret = "error",
                       !.err = txs[calls[c].stakeTx].err]]
  /\ UNCHANGED <<factoryVars, pool, isSigner, chainVars, txs, queryVars>>

\* ------------------------------------------------------------------- chain
\* lptoken.approve(spender, amount) executes: the allowance is set
ApproveExecutes(i) ==
  /\ i \in 1 .. Len(txs)
  /\ txs[i].kind = "approve"
  /\ txs[i].st = "pending"
  /\ allowance' = txs[i].amount
  /\ txs' = [txs EXCEPT ![i].st = "ok"]
  /\ UNCHANGED <<factoryVars, pool, isSigner, wallet, staked, totalSupply, earned,
                 chainSteps, calls, queryVars>>

\* stake(amount) executes: the pool pulls amount from the caller, which
\* reverts unless the caller's balance and allowance both cover it
StakeExecutes(i) ==
  /\ i \in 1 .. Len(txs)
  /\ txs[i].kind = "stake"
  /\ txs[i].st = "pending"
  /\ IF txs[i].amount <= wallet[Me] /\ txs[i].amount <= allowance
     THEN /\ wallet' = [wallet EXCEPT ![Me] = @ - txs[i].amount]
          /\ allowance' = IF allowance = MaxUint256 THEN allowance
                          ELSE allowance - txs[i].amount
          /\ staked' = [staked EXCEPT ![Me] = @ + txs[i].amount]
          /\ totalSupply' = totalSupply + txs[i].amount
          /\ txs' = [txs EXCEPT ![i].st = "ok"]
     ELSE /\ txs' = [txs EXCEPT ![i].st = "err", ![i].err = "stake reverted"]
          /\ UNCHANGED <<wallet, allowance, staked, totalSupply>>
  /\ UNCHANGED <<factoryVars, pool, isSigner, earned, chainSteps, calls, queryVars>>

\* the caller receives one token from a third party while a call is in flight
Deposit ==
  /\ chainSteps < MaxChainSteps
  /\ \E c \in DOMAIN calls : calls[c].pc \notin {"idle", "done"}
  /\ wallet[Me] < MaxBal
  /\ chainSteps' = chainSteps + 1
  /\ wallet' = [wallet EXCEPT ![Me] = @ + 1]
  /\ UNCHANGED <<factoryVars, pool, isSigner, allowance, staked, totalSupply, earned, txs,
                 calls, queryVars>>

\* a submitted transaction fails upstream without executing
TxFails(i) ==
  /\ i \in 1 .. Len(txs)
  /\ txs[i].st = "pending"
  /\ txs' = [txs EXCEPT ![i].st = "err", ![i].err = txs[i].kind \o " failed"]
  /\ UNCHANGED <<factoryVars, pool, isSigner, chainVars, calls, queryVars>>

\* --------------------------------------------------------- percentageOfTotal
\* strings are sequences of one-character strings
DigitChar(d) == <<"0", "1", "2", "3", "4", "5", "6", "7", "8", "9">>[d + 1]

RECURSIVE NatToChars(_)
NatToChars(n) ==
  IF n < 10 THEN <<DigitChar(n)>>
  ELSE NatToChars(n \div 10) \o <<DigitChar(n % 10)>>

\* the first k fractional digits of r / total, for r < total
RECURSIVE FractionDigits(_, _, _)
FractionDigits(r, total, k) ==
  IF k = 0 THEN << >>
  ELSE <<(r * 10) \div total>> \o FractionDigits((r * 10) % total, total, k - 1)

\* formatUnits drops the fraction's trailing zeros but keeps one digit
RECURSIVE StripTrailingZeros(_)
StripTrailingZeros(ds) ==
  IF Len(ds) > 1 /\ ds[Len(ds)] = 0
  THEN StripTrailingZeros(SubSeq(ds, 1, Len(ds) - 1))
  ELSE ds

\* ethers.utils.formatUnits(tokens * WeiPerEther / total, 16): the whole part
\* is floor(100 * tokens / total), the fraction its next 16 decimal digits
FormatUnits16(tokens, total) ==
  LET whole == (tokens * 100) \div total
      frac == StripTrailingZeros(FractionDigits((tokens * 100) % total, total, 16))
  IN NatToChars(whole) \o <<".">> \o [i \in 1 .. Len(frac) |-> DigitChar(frac[i])]

\* String.prototype.slice(0, n)
Slice(str, n) == SubSeq(str, 1, IF Len(str) < n THEN Len(str) ELSE n)

ZeroPercent == <<"0", "%">>

\* lines 125-127: the percentage string for non-zero tokens and total
FormatPercentage(tokens, total) == Slice(FormatUnits16(tokens, total), 5) \o <<"%">>

\* ------------------------------------------------------------ collaborators
\* lptoken.usdValueOf / reward.usdValueOf: the adapters' pricing
LpPrice == 2
RewardPrice == 3
\* lptoken.calcShare(balance): shares to underlying units
CalcShare(balance) == balance * 2
\* data.isAddressActive(address)
isAddressActive(address) == address = PoolAddress

\* javascript values that summary tests for truthiness (line 185)
EmptyObject == [t |-> "object", n |-> 0]
BigNumber(n) == [t |-> "BigNumber", n |-> n]
\* every object is truthy: {} and a BigNumber holding zero included
Truthy(v) == v.t \in {"object", "BigNumber"}

\* ---------------------------------------------------------- read operations
ReadIds ==
  {"s.staked", "s.unstaked", "s.earned", "ub.bal", "ub.calc",
   "po.bal", "po.total", "uv.staked", "uv.earned", "uv.priceLp",
   "uv.priceReward"}

IdleOp ==
  [kind |-> "none", address |-> undefined, pc |-> "idle", ret |-> "running",
   err |-> "", issued |-> {}, result |-> << >>]

NoneStr == [st |-> "none", val |-> << >>, err |-> ""]
PendingStr == [st |-> "pending", val |-> << >>, err |-> ""]
RejectedStr(e) == [st |-> "err", val |-> << >>, err |-> e]
NoneObj == [st |-> "none", val |-> [t |-> "undefined", n |-> 0], err |-> ""]
PendingObj == [st |-> "pending", val |-> [t |-> "undefined", n |-> 0], err |-> ""]
RejectedObj(e) == [st |-> "err", val |-> [t |-> "undefined", n |-> 0], err |-> e]

\* this.earnedRewards(address): the harvest variant reads the contract's
\* earned; the auto-compounding variant resolves to 0 without any read
EarnedRewards(r) ==
  IF pool.earnedRewards = "zero" THEN Resolved(0) ELSE Pending

EarnedIssued(r) == IF pool.earnedRewards = "zero" THEN {} ELSE {r}

\* the staked-balance reads pinned to the answer the first of them got
ReadValuePinned(r) ==
  CASE r \in {"ub.bal", "po.bal", "uv.staked"} ->
         (IF rd["s.staked"].st = "ok" THEN rd["s.staked"].val
          ELSE staked[op.address])
    [] r = "s.staked" -> staked[op.address]
    [] r = "s.unstaked" -> wallet[op.address]
    [] r \in {"s.earned", "uv.earned"} -> earned[op.address]
    [] r = "ub.calc" -> CalcShare(rd["ub.bal"].val)
    [] r = "po.total" -> totalSupply
    [] r = "uv.priceLp" -> rd["uv.staked"].val * LpPrice
    [] r = "uv.priceReward" -> rd["uv.earned"].val * RewardPrice

\* percentageOwnership reading the wallet balance instead of the staked one
ReadValueWallet(r) ==
  CASE r \in {"s.staked", "ub.bal", "uv.staked"} -> staked[op.address]
    [] r \in {"s.unstaked", "po.bal"} -> wallet[op.address]
    [] r \in {"s.earned", "uv.earned"} -> earned[op.address]
    [] r = "ub.calc" -> CalcShare(rd["ub.bal"].val)
    [] r = "po.total" -> totalSupply
    [] r = "uv.priceLp" -> rd["uv.staked"].val * LpPrice
    [] r = "uv.priceReward" -> rd["uv.earned"].val * RewardPrice

\* what the chain (or the adapter) answers to read r at this moment
ReadValue(r) ==
  CASE r \in {"s.staked", "ub.bal", "po.bal", "uv.staked"} -> staked[op.address]
    [] r = "s.unstaked" -> wallet[op.address]
    [] r \in {"s.earned", "uv.earned"} -> earned[op.address]
    [] r = "ub.calc" -> CalcShare(rd["ub.bal"].val)
    [] r = "po.total" -> totalSupply
    [] r = "uv.priceLp" -> rd["uv.staked"].val * LpPrice
    [] r = "uv.priceReward" -> rd["uv.earned"].val * RewardPrice

\* lines 97-104: usdValueOf issues the staked-balance and earned reads
UsdValueOfIssue(reads) ==
  [reads EXCEPT !["uv.staked"] = Pending, !["uv.earned"] = EarnedRewards("uv.earned")]

\* lines 135-136: percentageOwnership issues balanceOf
PercentageOwnershipIssue(reads) == [reads EXCEPT !["po.bal"] = Pending]

\* lines 152-157, 19-24: underlying(address)
UnderlyingIssue(reads) ==
  IF pool.underlyingBalanceOf THEN [reads EXCEPT !["ub.bal"] = Pending] ELSE reads

UnderlyingStart ==
  IF pool.underlyingBalanceOf THEN PendingObj
  ELSE [st |-> "ok", val |-> EmptyObject, err |-> ""]

NoReads == [r \in ReadIds |-> NonePromise]

UsdValueOf(address) ==
  /\ op.pc = "idle"
  /\ pool # NoPool
  /\ \A c \in DOMAIN calls : calls[c].pc = "idle"
  /\ op' = [IdleOp EXCEPT !.kind = "usdValueOf", !.address = address,
                          !.pc = "running",
                          !.issued = {"uv.staked"} \cup EarnedIssued("uv.earned")]
  /\ rd' = UsdValueOfIssue(NoReads)
  /\ uvOut' = Pending
  /\ UNCHANGED <<factoryVars, pool, isSigner, chainVars, txs, calls, ubOut, poOut>>

PercentageOwnership(address) ==
  /\ op.pc = "idle"
  /\ pool # NoPool
  /\ \A c \in DOMAIN calls : calls[c].pc = "idle"
  /\ op' = [IdleOp EXCEPT !.kind = "percentageOwnership", !.address = address,
                          !.pc = "running", !.issued = {"po.bal"}]
  /\ rd' = PercentageOwnershipIssue(NoReads)
  /\ poOut' = PendingStr
  /\ UNCHANGED <<factoryVars, pool, isSigner, chainVars, txs, calls, ubOut, uvOut>>

\* lines 120-122: percentageOfTotal(tokens) called on its own; the argument
\* takes the place of the balance percentageOwnership reads
PercentageOfTotal(tokens) ==
  /\ op.pc = "idle"
  /\ pool # NoPool
  /\ \A c \in DOMAIN calls : calls[c].pc = "idle"
  /\ IF tokens = 0
     THEN /\ op' = [IdleOp EXCEPT !.kind = "percentageOfTotal", !.pc = "done",
                                  !.ret = "value", !.result = ZeroPercent]
          /\ rd' = [NoReads EXCEPT !["po.bal"] = Resolved(tokens)]
          /\ poOut' = [st |-> "ok", val |-> ZeroPercent, err |-> ""]
     ELSE /\ op' = [IdleOp EXCEPT !.kind = "percentageOfTotal", !.pc = "running",
                                  !.issued = {"po.total"}]
          /\ rd' = [NoReads EXCEPT !["po.bal"] = Resolved(tokens),
                                   !["po.total"] = Pending]
          /\ poOut' = PendingStr
  /\ UNCHANGED <<factoryVars, pool, isSigner, chainVars, txs, calls, ubOut, uvOut>>

\* lines 151-172: summary issues its six computations at once
Summary(address) ==
  /\ op.pc = "idle"
  /\ pool # NoPool
  /\ \A c \in DOMAIN calls : calls[c].pc = "idle"
  /\ op' = [IdleOp EXCEPT !.kind = "summary", !.address = address,
                          !.pc = "running",
                          !.issued = {"s.staked", "s.unstaked", "po.bal", "uv.staked"}
                                     \cup EarnedIssued("s.earned")
                                     \cup EarnedIssued("uv.earned")
                                     \cup (IF pool.underlyingBalanceOf
                                           THEN {"ub.bal"} ELSE {})]
  /\ rd' = UsdValueOfIssue(PercentageOwnershipIssue(UnderlyingIssue(
             [NoReads EXCEPT !["s.staked"] = Pending, !["s.unstaked"] = Pending,
                             !["s.earned"] = EarnedRewards("s.earned")])))
  /\ ubOut' = UnderlyingStart
  /\ poOut' = PendingStr
  /\ uvOut' = Pending
  /\ UNCHANGED <<factoryVars, pool, isSigner, chainVars, txs, calls>>

\* lines 229-231, 246: earnedRewards(address) called on its own
EarnedRewardsCall(address) ==
  /\ op.pc = "idle"
  /\ pool # NoPool
  /\ \A c \in DOMAIN calls : calls[c].pc = "idle"
  /\ LET p == EarnedRewards("s.earned")
     IN /\ op' = IF p.st = "ok"
                 THEN [IdleOp EXCEPT !.kind = "earnedRewards", !.address = address,
                                     !.pc = "done", !.ret = "value",
                                     !.result = p.val]
                 ELSE [IdleOp EXCEPT !.kind = "earnedRewards", !.address = address,
                                     !.pc = "running",
                                     !.issued = EarnedIssued("s.earned")]
        /\ rd' = [NoReads EXCEPT !["s.earned"] = p]
  /\ UNCHANGED <<factoryVars, pool, isSigner, chainVars, txs, calls, ubOut, poOut, uvOut>>

\* the reads a continuation issues once read r has settled as p:
\* line 22 (calcShare), line 122 (totalSupply), lines 106-109 (pricing)
Continue(r, p, reads) ==
  CASE r = "ub.bal" /\ p.st = "ok" -> {"ub.calc"}
    [] r = "po.bal" /\ p.st = "ok" /\ p.val # 0 -> {"po.total"}
    [] r \in {"uv.staked", "uv.earned"} /\ p.st = "ok"
         /\ reads["uv.staked"].st = "ok" /\ reads["uv.earned"].st = "ok"
         /\ uvOut.st = "pending" -> {"uv.priceLp", "uv.priceReward"}
    [] OTHER -> {}

\* lines 20-23: the promise of underlyingBalanceOf(address)
UnderlyingAfter(r, p) ==
  CASE r = "ub.bal" /\ p.st = "err" -> RejectedObj(p.err)
    [] r = "ub.calc" /\ p.st = "err" -> RejectedObj(p.err)
    [] r = "ub.calc" /\ p.st = "ok" ->
         [st |-> "ok", val |-> BigNumber(p.val), err |-> ""]
    [] OTHER -> ubOut

\* percentageOfTotal without the test of the total supply: the division by
\* a zero total throws
PercentageAfterNoTotalCheck(r, p) ==
  CASE r \in {"po.bal", "po.total"} /\ p.st = "err" -> RejectedStr(p.err)
    [] r = "po.bal" /\ p.st = "ok" /\ p.val = 0 ->
         [st |-> "ok", val |-> ZeroPercent, err |-> ""]
    [] r = "po.total" /\ p.st = "ok" /\ p.val = 0 ->
         RejectedStr("division by zero")
    [] r = "po.total" /\ p.st = "ok" /\ p.val # 0 ->
         [st |-> "ok", val |-> FormatPercentage(rd["po.bal"].val, p.val), err |-> ""]
    [] OTHER -> poOut

\* lines 120-128, 135-137: the promise of percentageOwnership(address)
PercentageAfter(r, p) ==
  CASE r \in {"po.bal", "po.total"} /\ p.st = "err" -> RejectedStr(p.err)
    [] r = "po.bal" /\ p.st = "ok" /\ p.val = 0 ->
         [st |-> "ok", val |-> ZeroPercent, err |-> ""]
    [] r = "po.total" /\ p.st = "ok" /\ p.val = 0 ->
         [st |-> "ok", val |-> ZeroPercent, err |-> ""]
    [] r = "po.total" /\ p.st = "ok" /\ p.val # 0 ->
         [st |-> "ok", val |-> FormatPercentage(rd["po.bal"].val, p.val), err |-> ""]
    [] OTHER -> poOut

\* usdValueOf with a failed pricing call taken as a price of zero
UsdAfterSwallow(r, p, reads) ==
  CASE r \in {"uv.staked", "uv.earned"}
         /\ p.st = "err" /\ uvOut.st = "pending" -> Rejected(p.err)
    [] r \in {"uv.priceLp", "uv.priceReward"}
         /\ reads["uv.priceLp"].st \in {"ok", "err"}
         /\ reads["uv.priceReward"].st \in {"ok", "err"}
         /\ uvOut.st = "pending" ->
         Resolved(reads["uv.priceLp"].val + reads["uv.priceReward"].val)
    [] OTHER -> uvOut

\* usdValueOf returning the staked value alone
UsdAfterStakedOnly(r, p, reads) ==
  CASE r \in {"uv.staked", "uv.earned", "uv.priceLp", "uv.priceReward"}
         /\ p.st = "err" /\ uvOut.st = "pending" -> Rejected(p.err)
    [] r \in {"uv.priceLp", "uv.priceReward"} /\ p.st = "ok"
         /\ reads["uv.priceLp"].st = "ok" /\ reads["uv.priceReward"].st = "ok"
         /\ uvOut.st = "pending" ->
         Resolved(reads["uv.priceLp"].val)
    [] OTHER -> uvOut

\* lines 97-112: the promise of usdValueOf(address)
UsdAfter(r, p, reads) ==
  CASE r \in {"uv.staked", "uv.earned", "uv.priceLp", "uv.priceReward"}
         /\ p.st = "err" /\ uvOut.st = "pending" -> Rejected(p.err)
    [] r \in {"uv.priceLp", "uv.priceReward"} /\ p.st = "ok"
         /\ reads["uv.priceLp"].st = "ok" /\ reads["uv.priceReward"].st = "ok"
         /\ uvOut.st = "pending" ->
         Resolved(reads["uv.priceLp"].val + reads["uv.priceReward"].val)
    [] OTHER -> uvOut

\* lines 174-186: the record summary returns
SummaryOutput(reads, under, pct, usd) ==
  LET output ==
        [address |-> pool.address, user |-> op.address, pool |-> pool.pool,
         isActive |-> isAddressActive(pool.address),
         stakedBalance |-> reads["s.staked"].val,
         unstakedBalance |-> reads["s.unstaked"].val,
         earnedRewards |-> reads["s.earned"].val,
         percentageOwnership |-> pct,
         usdValueOf |-> usd]
  IN IF Truthy(under) THEN output @@ [underlyingBalanceOf |-> under] ELSE output

\* the state of the operation once read r has settled: Promise.all (line
\* 165) rejects with the first rejection and resolves when all six resolved
OpAfter(r, p, reads, under, pct, usd) ==
  IF op.pc # "running" THEN op
  ELSE CASE op.kind = "usdValueOf" ->
              IF usd.st = "ok"
              THEN [op EXCEPT !.pc = "done", !.ret = "value", !.result = usd.val]
              ELSE IF usd.st = "err"
              THEN [op EXCEPT !.pc = "done", !.ret = "error", !.err = usd.err]
              ELSE op
         [] op.kind \in {"percentageOwnership", "percentageOfTotal"} ->
              IF pct.st = "ok"
              THEN [op EXCEPT !.pc = "done", !.ret = "value", !.result = pct.val]
              ELSE IF pct.st = "err"
              THEN [op EXCEPT !.pc = "done", !.ret = "error", !.err = pct.err]
              ELSE op
         [] op.kind = "earnedRewards" ->
              IF p.st = "ok"
              THEN [op EXCEPT !.pc = "done", !.ret = "value", !.result = p.val]
              ELSE [op EXCEPT !.pc = "done", !.ret = "error", !.err = p.err]
         [] op.kind = "summary" ->
              IF \/ r \in {"s.staked", "s.unstaked", "s.earned"} /\ p.st = "err"
                 \/ under.st = "err" /\ ubOut.st # "err"
                 \/ pct.st = "err" /\ poOut.st # "err"
                 \/ usd.st = "err" /\ uvOut.st # "err"
              THEN [op EXCEPT !.pc = "done", !.ret = "error", !.err = p.err]
              ELSE IF /\ reads["s.staked"].st = "ok"
                      /\ reads["s.unstaked"].st = "ok"
                      /\ reads["s.earned"].st = "ok"
                      /\ under.st = "ok" /\ pct.st = "ok" /\ usd.st = "ok"
              THEN [op EXCEPT !.pc = "done", !.ret = "value",
                              !.result = SummaryOutput(reads, under.val, pct.val, usd.val)]
              ELSE op

\* read r settles as p and every continuation waiting on it runs; once the
\* operation has ended, what its other reads settle to is discarded
ReadSettles(r, p) ==
  /\ rd[r].st = "pending"
  /\ op.pc = "running"
  /\ LET reads == [rd EXCEPT ![r] = p]
         more == Continue(r, p, reads)
         under == UnderlyingAfter(r, p)
         pct == PercentageAfter(r, p)
         usd == UsdAfter(r, p, reads)
     IN /\ rd' = [x \in ReadIds |-> IF x \in more THEN Pending ELSE reads[x]]
        /\ ubOut' = under
        /\ poOut' = pct
        /\ uvOut' = usd
        /\ op' = [OpAfter(r, p, reads, under, pct, usd)
                    EXCEPT !.issued = @ \cup more]
  /\ UNCHANGED <<factoryVars, pool, isSigner, chainVars, txs, calls>>

ReadResolves(r) == ReadSettles(r, Resolved(ReadValue(r)))

ReadRejects(r) == ReadSettles(r, Rejected(r \o " failed"))

\* one more token is staked for address a while its reads are in flight
ThirdPartyStake(a) ==
  /\ chainSteps < MaxChainSteps
  /\ op.pc = "running"
  /\ a = op.address
  /\ chainSteps' = chainSteps + 1
  /\ staked' = [staked EXCEPT ![a] = @ + 1]
  /\ totalSupply' = totalSupply + 1
  /\ UNCHANGED <<factoryVars, pool, isSigner, wallet, allowance, earned, txs, calls, queryVars>>


vars == <<pool, isSigner, wallet, allowance, staked, totalSupply, earned,
          chainSteps, txs, calls, op, rd, ubOut, poOut, uvOut, heap, returned>>

DefaultDescriptor ==
  [address |-> PoolAddress, name |-> "Farm",
   asset |-> [name |-> "fDAI", underlying |-> FALSE],
   rewardAsset |-> RewardAsset, type |-> "harvest", poolType |-> "harvest"]

InitStake ==
  /\ pool = fromPool(DefaultDescriptor)
  /\ isSigner \in BOOLEAN
  /\ wallet \in {[a \in Addresses |-> IF a = Me THEN b ELSE 0] : b \in 0 .. MaxBal}
  /\ allowance \in 0 .. MaxBal
  /\ staked = [a \in Addresses |-> 0]
  /\ totalSupply = 0
  /\ earned = [a \in Addresses |-> 0]
  /\ chainSteps = 0
  /\ txs = << >>
  /\ calls = [c \in {"c1"} |-> IdleCall]
  /\ op = IdleOp
  /\ rd = NoReads
  /\ ubOut = NoneObj
  /\ poOut = NoneStr
  /\ uvOut = NonePromise
  /\ heap = << >>
  /\ returned = << >>

\* the steps of the calls in flight and of the chain
StakeSteps ==
  \/ \E c \in DOMAIN calls : AllowancesResolves(c)
  \/ \E c \in DOMAIN calls : AllowancesRejects(c)
  \/ \E c \in DOMAIN calls : BalanceOfResolves(c)
  \/ \E c \in DOMAIN calls : BalanceOfRejects(c)
  \/ \E c \in DOMAIN calls : ReadsReject(c)
  \/ \E c \in DOMAIN calls : ReadsResolve(c)
  \/ \E c \in DOMAIN calls : AwaitApprove(c)
  \/ \E c \in DOMAIN calls : AwaitStake(c)
  \/ \E i \in 1 .. Len(txs) : ApproveExecutes(i)
  \/ \E i \in 1 .. Len(txs) : StakeExecutes(i)
  \/ \E i \in 1 .. Len(txs) : TxFails(i)
  \/ Deposit

NextStake ==
  \/ \E c \in DOMAIN calls, amnt \in AmountArgs, f \in BOOLEAN :
       ApproveAndStake(c, amnt, f)
  \/ StakeSteps

SpecStake == InitStake /\ [][NextStake]_vars

QueryDescriptors ==
  {d \in Descriptors : d.name = "Farm" /\ d.poolType = undefined
                       /\ d.type \in {"autocompounding", "harvest"}}

InitQuery ==
  /\ pool \in {fromPool(d) : d \in QueryDescriptors}
  /\ isSigner = TRUE
  /\ wallet = [a \in Addresses |-> IF a = Me THEN MaxBal ELSE 0]
  /\ allowance = 0
  /\ staked = [a \in Addresses |-> IF a = Me THEN 0 ELSE 1]
  /\ totalSupply = 3
  /\ earned = [a \in Addresses |-> IF a = Me THEN 0 ELSE MaxEarned]
  /\ chainSteps = 0
  /\ txs = << >>
  /\ calls = [c \in {"c1"} |-> IdleCall]
  /\ op = IdleOp
  /\ rd = NoReads
  /\ ubOut = NoneObj
  /\ poOut = NoneStr
  /\ uvOut = NonePromise
  /\ heap = << >>
  /\ returned = << >>

NextQuery ==
  \/ \E a \in Addresses : UsdValueOf(a)
  \/ \E a \in Addresses : PercentageOwnership(a)
  \/ \E a \in Addresses : Summary(a)
  \/ \E a \in Addresses : EarnedRewardsCall(a)
  \/ \E r \in ReadIds : ReadResolves(r)
  \/ \E r \in ReadIds : ReadRejects(r)
  \/ \E a \in Addresses : ThirdPartyStake(a)

SpecQuery == InitQuery /\ [][NextQuery]_vars

\* -------------------------------------------------------------- the factory
\* RewardsPool.fromPool(descriptor, provider) is called
FromPool(d) ==
  /\ pool = NoPool
  /\ pool' = fromPool(d)
  /\ UNCHANGED <<factoryVars, isSigner, chainVars, txs, calls, queryVars>>

InitFactory ==
  /\ pool = NoPool
  /\ isSigner = TRUE
  /\ wallet = [a \in Addresses |-> 0]
  /\ allowance = 0
  /\ staked = [a \in Addresses |-> 0]
  /\ totalSupply = 0
  /\ earned \in [Addresses -> 0 .. MaxEarned]
  /\ chainSteps = 0
  /\ txs = << >>
  /\ calls = [c \in {"c1"} |-> IdleCall]
  /\ op = IdleOp
  /\ rd = NoReads
  /\ ubOut = NoneObj
  /\ poOut = NoneStr
  /\ uvOut = NonePromise
  /\ heap = << >>
  /\ returned = << >>

NextFactory ==
  \/ \E d \in Descriptors : FromPool(d)
  \/ \E a \in Addresses : EarnedRewardsCall(a)
  \/ \E r \in ReadIds : ReadResolves(r)
  \/ \E r \in ReadIds : ReadRejects(r)

SpecFactory == InitFactory /\ [][NextFactory]_vars

\* ------------------------------------------------------ the cohort factories
MaxCohortCalls == 3

\* one registry entry
RegistryPool(name, underlying, type) ==
  [address |-> PoolAddress, name |-> name,
   asset |-> [name |-> "fDAI", underlying |-> underlying],
   rewardAsset |-> RewardAsset, type |-> type, poolType |-> undefined]

\* the lists of './data/deploys.js', one per cohort factory
data ==
  [pools |-> <<RegistryPool("Farm", FALSE, "autocompounding"),
               RegistryPool(undefined, TRUE, undefined),
               RegistryPool("", FALSE, "harvest")>>,
   weekOnePools |-> <<RegistryPool(undefined, TRUE, undefined)>>,
   weekTwoPools |-> <<RegistryPool("", FALSE, "harvest"),
                      RegistryPool("Farm", FALSE, "autocompounding")>>,
   activePools |-> <<RegistryPool("Farm", FALSE, "autocompounding"),
                     RegistryPool("Farm", TRUE, "other")>>,
   inactivePools |-> <<RegistryPool(undefined, TRUE, undefined),
                       RegistryPool("", FALSE, "harvest")>>,
   allPastPools |-> << >>]

CohortLists == DOMAIN data

\* a factory that keeps the collection of its first call and hands it out again
MapFromPoolCached(list) ==
  IF \E k \in 1 .. Len(returned) : returned[k].list = list
  THEN returned[CHOOSE k \in 1 .. Len(returned) : returned[k].list = list].ids
  ELSE [i \in 1 .. Len(data[list]) |-> Len(heap) + i]

\* data.X.map((pool) => RewardsPool.fromPool(pool, provider)): the handles of
\* the instances the call constructs, in the order of the list
MapFromPool(list) ==
  [i \in 1 .. Len(data[list]) |-> Len(heap) + i]

\* one call of a cohort factory: constructs one instance per entry of the
\* list and returns the array of them
CohortCall(list) ==
  /\ Len(returned) < MaxCohortCalls
  /\ heap' = heap \o [i \in 1 .. Len(data[list]) |-> fromPool(data[list][i])]
  /\ returned' = Append(returned, [list |-> list, ids |-> MapFromPool(list)])
  /\ UNCHANGED <<pool, isSigner, chainVars, txs, calls, queryVars>>

knownPools == CohortCall("pools")
weekOne == CohortCall("weekOnePools")
weekTwo == CohortCall("weekTwoPools")
activePools == CohortCall("activePools")
inactivePools == CohortCall("inactivePools")
allPastPools == CohortCall("allPastPools")

InitCohort == InitFactory

NextCohort ==
  \/ knownPools
  \/ weekOne
  \/ weekTwo
  \/ activePools
  \/ inactivePools
  \/ allPastPools

SpecCohort == InitCohort /\ [][NextCohort]_vars

\* two approveAndStake calls in flight on one signer connection
InitTwin ==
  /\ InitStake!1
  /\ isSigner = TRUE
  /\ InitStake!3
  /\ InitStake!4
  /\ InitStake!5
  /\ InitStake!6
  /\ InitStake!7
  /\ InitStake!8
  /\ InitStake!9
  /\ calls = [c \in {"c1", "c2"} |-> IdleCall]
  /\ op = IdleOp
  /\ rd = NoReads
  /\ ubOut = NoneObj
  /\ poOut = NoneStr
  /\ uvOut = NonePromise
  /\ heap = << >>
  /\ returned = << >>

\* the first call leaves the amount out or passes zero; the second passes
\* any amount and is made once the first has got past its reads
NextTwin ==
  \/ \E amnt \in {NoAmount, 0}, f \in BOOLEAN : ApproveAndStake("c1", amnt, f)
  \/ \E amnt \in AmountArgs, f \in BOOLEAN :
       /\ calls["c1"].pc \notin {"idle", "reads"}
       /\ ApproveAndStake("c2", amnt, f)
  \/ StakeSteps

SpecTwin == InitTwin /\ [][NextTwin]_vars

\* every operation, one at a time
InitAll == InitStake \/ InitQuery

NextAll == NextStake \/ NextQuery

Spec == InitAll /\ [][NextAll]_vars

\* -------------------------------------------------- the life of an instance
\* isActive storing a label on the instance
IsActiveRenames ==
  /\ op.pc = "idle"
  /\ pool # NoPool
  /\ \A c \in DOMAIN calls : calls[c].pc = "idle"
  /\ op' = [IdleOp EXCEPT !.kind = "isActive", !.pc = "done", !.ret = "value",
                          !.result = isAddressActive(pool.address)]
  /\ pool' = [pool EXCEPT !.name = "active"]
  /\ rd' = NoReads
  /\ UNCHANGED <<factoryVars, isSigner, chainVars, txs, calls, ubOut, poOut, uvOut>>

\* lines 142-144: isActive() asks the registry about this.address
IsActive ==
  /\ op.pc = "idle"
  /\ pool # NoPool
  /\ \A c \in DOMAIN calls : calls[c].pc = "idle"
  /\ op' = [IdleOp EXCEPT !.kind = "isActive", !.pc = "done", !.ret = "value",
                          !.result = isAddressActive(pool.address)]
  /\ rd' = NoReads
  /\ UNCHANGED <<factoryVars, pool, isSigner, chainVars, txs, calls, ubOut, poOut, uvOut>>

\* the caller has taken the outcome of the operation; the next one may start
OpReturns ==
  /\ op.pc = "done"
  /\ op' = IdleOp
  /\ rd' = NoReads
  /\ ubOut' = NoneObj
  /\ poOut' = NoneStr
  /\ uvOut' = NonePromise
  /\ UNCHANGED <<factoryVars, pool, isSigner, chainVars, txs, calls>>

\* the caller has taken the outcome of call c and its transactions have
\* settled; the connection is free for the next call
CallReturns(c) ==
  /\ calls[c].pc = "done"
  /\ \A i \in 1 .. Len(txs) : txs[i].st # "pending"
  /\ calls' = [calls EXCEPT ![c] = IdleCall]
  /\ txs' = << >>
  /\ UNCHANGED <<factoryVars, pool, isSigner, chainVars, queryVars>>

InitLife ==
  /\ pool = NoPool
  /\ isSigner = TRUE
  /\ wallet = [a \in Addresses |-> IF a = Me THEN MaxBal ELSE 0]
  /\ allowance = 0
  /\ staked = [a \in Addresses |-> IF a = Me THEN 0 ELSE 1]
  /\ totalSupply = 3
  /\ earned = [a \in Addresses |-> IF a = Me THEN 0 ELSE MaxEarned]
  /\ chainSteps = 0
  /\ txs = << >>
  /\ calls = [c \in {"c1"} |-> IdleCall]
  /\ op = IdleOp
  /\ rd = NoReads
  /\ ubOut = NoneObj
  /\ poOut = NoneStr
  /\ uvOut = NonePromise
  /\ heap = << >>
  /\ returned = << >>

\* the descriptors an instance is built from here: one of each variant
LifeDescriptors == {d \in QueryDescriptors : d.asset.underlying}

NextLife ==
  \/ \E d \in LifeDescriptors : FromPool(d)
  \/ UsdValueOf(Me)
  \/ PercentageOwnership(Me)
  \/ \E tokens \in 0 .. MaxBal : PercentageOfTotal(tokens)
  \/ Summary(Me)
  \/ EarnedRewardsCall(Me)
  \/ IsActive
  \/ \E r \in ReadIds : ReadResolves(r)
  \/ \E r \in ReadIds : ReadRejects(r)
  \/ ThirdPartyStake(Me)
  \/ OpReturns
  \/ NextStake
  \/ \E c \in DOMAIN calls : CallReturns(c)

SpecLife == InitLife /\ [][NextLife]_vars

\* ------------------------------------------------------------------- claims
\* the transactions call c has submitted, as <<kind, target, amount>>
TxIdsOf(c) == {i \in 1 .. Len(txs) : txs[i].call = c}

RECURSIVE TxListFrom(_, _)
TxListFrom(c, i) ==
  IF i > Len(txs) THEN << >>
  ELSE (IF txs[i].call = c
        THEN <<[kind |-> txs[i].kind, target |-> txs[i].target,
                amount |-> txs[i].amount]>>
        ELSE << >>) \o TxListFrom(c, i + 1)

TxListOf(c) == TxListFrom(c, 1)

\* call c has run the code after the reads (lines 206-207)
PastReads(c) == calls[c].pc \in {"awaitApprove", "awaitStake", "done"}
                  /\ calls[c].allowanceP.st = "ok" /\ calls[c].balanceP.st = "ok"

\* C1: a call whose requested amount exceeds the wallet balance it read
\* submits no transaction, and once both reads have resolved it ends
\* returning undefined, without an error
C1_InsufficientFundsNoOp ==
  \A c \in DOMAIN calls :
    (calls[c].balanceP.st = "ok" /\ calls[c].amntArg > calls[c].balanceP.val) =>
      /\ TxIdsOf(c) = {}
      /\ calls[c].ret # "value"
      /\ PastReads(c) => (calls[c].pc = "done" /\ calls[c].ret = "undefined"
                          /\ calls[c].err = "")

C1_Witness ==
  \E c \in DOMAIN calls :
    /\ PastReads(c)
    /\ calls[c].amntArg > calls[c].balance
    /\ calls[c].approveForever
    /\ calls[c].allowance < calls[c].balance
    /\ calls[c].ret = "undefined"

\* the state of the promises of the two transactions of call c
Fate(c) ==
  <<IF calls[c].approveTx = 0 THEN "none"
    ELSE txs[calls[c].approveTx].st \o ":" \o txs[calls[c].approveTx].err,
    IF calls[c].stakeTx = 0 THEN "none"
    ELSE txs[calls[c].stakeTx].st \o ":" \o txs[calls[c].stakeTx].err>>

\* what call c returned: undefined, an error, or the stake's receipt
ResultOf(c) ==
  [ret |-> calls[c].ret, err |-> calls[c].err,
   receipt |-> IF calls[c].ret = "value"
               THEN <<txs[calls[c].val].kind, txs[calls[c].val].amount>>
               ELSE << >>]

\* C2: a call with the amount absent or zero and a call with the amount
\* equal to the wallet balance, having read the same balance and allowance
\* with the same approveForever, submit the same transactions in the same
\* order and, their transactions faring alike, return the same result
C2_AmountDefaulting ==
  \A c1, c2 \in DOMAIN calls :
    (/\ PastReads(c1) /\ PastReads(c2)
     /\ calls[c1].amntArg \in {NoAmount, 0}
     /\ calls[c2].amntArg = calls[c2].balance
     /\ calls[c1].balance = calls[c2].balance
     /\ calls[c1].allowance = calls[c2].allowance
     /\ calls[c1].approveForever = calls[c2].approveForever) =>
      /\ TxListOf(c1) = TxListOf(c2)
      /\ (calls[c1].pc = "done" /\ calls[c2].pc = "done" /\ Fate(c1) = Fate(c2))
           => ResultOf(c1) = ResultOf(c2)

C2_Witness ==
  /\ PastReads("c1") /\ PastReads("c2")
  /\ calls["c1"].amntArg = 0
  /\ calls["c2"].amntArg = calls["c2"].balance
  /\ calls["c1"].balance = calls["c2"].balance
  /\ calls["c1"].balance > 0
  /\ calls["c1"].allowance = calls["c2"].allowance
  /\ calls["c1"].approveForever = calls["c2"].approveForever
  /\ calls["c1"].ret = "value" /\ calls["c2"].ret = "value"
  /\ Len(TxListOf("c1")) = 2

\* C3: on a connection that is not a signer every call has failed with
\* 'No signer' having issued no read and submitted no transaction
C3_NoSigner ==
  ~isSigner =>
    \A c \in DOMAIN calls :
      calls[c].pc # "idle" =>
        /\ calls[c].pc = "done"
        /\ calls[c].ret = "error"
        /\ calls[c].err = "No signer"
        /\ calls[c].issued = {}
        /\ calls[c].allowanceP.st = "none"
        /\ calls[c].balanceP.st = "none"
        /\ TxIdsOf(c) = {}

C3_Witness ==
  /\ ~isSigner
  /\ \E c \in DOMAIN calls : calls[c].pc = "done" /\ calls[c].amntArg = 1
                               /\ wallet[Me] > 0

\* the amount a call stakes: its argument, or the balance read when the
\* argument is absent or zero
StakeAmount(c) ==
  IF calls[c].amntArg = NoAmount \/ calls[c].amntArg = 0
  THEN calls[c].balance ELSE calls[c].amntArg

ApprovalsOf(c) == {i \in TxIdsOf(c) : txs[i].kind = "approve"}

\* C4: a call that passed the funds check has submitted an approval iff
\* approveForever is set or the allowance read is below the balance read;
\* the approval's spender is the pool and its amount is the max-uint
\* sentinel under approveForever and the stake amount otherwise
C4_ApprovalRule ==
  \A c \in DOMAIN calls :
    (PastReads(c) /\ calls[c].balance >= StakeAmount(c)) =>
      /\ (ApprovalsOf(c) # {}) <=>
           (calls[c].approveForever \/ calls[c].allowance < calls[c].balance)
      /\ \A i \in ApprovalsOf(c) :
           /\ txs[i].target = PoolAddress
           /\ txs[i].amount = IF calls[c].approveForever THEN MaxUint256
                              ELSE StakeAmount(c)

C4_Witness ==
  \E c \in DOMAIN calls :
    /\ PastReads(c)
    /\ ~calls[c].approveForever
    /\ calls[c].amntArg = 1
    /\ calls[c].allowance = 1
    /\ calls[c].balance = 2
    /\ \E i \in ApprovalsOf(c) : txs[i].amount = 1

\* C5: an approval is submitted before the stake; the stake is already
\* submitted while the approval is awaited; the stake is awaited only after
\* the approval completed; a call returns a value only when the approval
\* (if any) and the stake have completed, and the value is the stake's
C5_Ordering ==
  \A c \in DOMAIN calls :
    /\ calls[c].approveTx # 0 =>
         /\ txs[calls[c].approveTx].kind = "approve"
         /\ calls[c].stakeTx # 0
         /\ calls[c].approveTx < calls[c].stakeTx
    /\ calls[c].pc = "awaitApprove" =>
         (calls[c].stakeTx # 0 /\ txs[calls[c].stakeTx].kind = "stake")
    /\ (calls[c].pc = "awaitStake" /\ calls[c].approveTx # 0) =>
         txs[calls[c].approveTx].st = "ok"
    /\ calls[c].ret = "value" =>
         /\ calls[c].val = calls[c].stakeTx
         /\ txs[calls[c].stakeTx].st = "ok"
         /\ calls[c].approveTx # 0 => txs[calls[c].approveTx].st = "ok"

C5_Witness ==
  \E c \in DOMAIN calls :
    /\ calls[c].ret = "value"
    /\ calls[c].approveTx # 0
    /\ txs[calls[c].stakeTx].amount > 0

\* C6: while the approval a call submitted is still unconfirmed its stake
\* is already submitted, so the chain can execute the stake against the
\* old allowance; a stake that reverts makes the call fail
C6_StakeExposed ==
  \A c \in DOMAIN calls :
    /\ (calls[c].approveTx # 0 /\ txs[calls[c].approveTx].st = "pending") =>
         (calls[c].stakeTx # 0 /\ calls[c].stakeTx <= Len(txs))
    /\ (calls[c].pc = "done" /\ calls[c].stakeTx # 0
        /\ txs[calls[c].stakeTx].err = "stake reverted") =>
         calls[c].ret = "error"

\* the stake reverted on the stale allowance: the approval is still pending,
\* the allowance is below the stake amount and the balance covers it
C6_Witness ==
  \E c \in DOMAIN calls :
    /\ calls[c].approveTx # 0
    /\ txs[calls[c].approveTx].st = "pending"
    /\ txs[calls[c].stakeTx].err = "stake reverted"
    /\ allowance < txs[calls[c].stakeTx].amount
    /\ allowance = calls[c].allowance
    /\ wallet[Me] >= txs[calls[c].stakeTx].amount

\* C7 as stated: a descriptor whose poolType is "auto-compounding" yields a
\* pool whose earnedRewards() resolves to 0 without reading the contract
C7_PoolTypeAutoCompounding ==
  (pool # NoPool /\ pool.pool.poolType = "auto-compounding") =>
    /\ pool.earnedRewards = "zero"
    /\ op.kind = "earnedRewards" =>
         (op.issued = {} /\ op.pc = "done" /\ op.ret = "value" /\ op.result = 0)

\* C7 amended: a descriptor whose type is "autocompounding" yields a pool
\* whose earnedRewards() resolves to 0 for every address and every earned
\* value on chain, without reading the contract
C7_TypeAutocompounding ==
  (pool # NoPool /\ pool.pool.type = "autocompounding") =>
    /\ pool.earnedRewards = "zero"
    /\ pool.abi = "AUTO_REWARDS_ABI"
    /\ op.kind = "earnedRewards" =>
         (op.issued = {} /\ rd["s.earned"].st # "pending"
          /\ op.pc = "done" /\ op.ret = "value" /\ op.result = 0)

C7_Witness ==
  /\ pool # NoPool
  /\ pool.pool.type = "autocompounding"
  /\ pool.pool.poolType = "harvest"
  /\ op.kind = "earnedRewards"
  /\ op.pc = "done"
  /\ earned[op.address] > 0
  /\ op.result = 0

\* C8: a descriptor whose type is "harvest", absent or any value fromPool
\* has no case for yields a harvest pool, whose earnedRewards(address) reads
\* the contract's earned(address) and returns that value as it is
C8_HarvestDefault ==
  (pool # NoPool /\ pool.pool.type # "autocompounding") =>
    /\ pool.earnedRewards = "earned"
    /\ pool.abi = "REWARDS_ABI"
    /\ op.kind = "earnedRewards" =>
         /\ op.issued = {"s.earned"}
         /\ op.ret = "value" => op.result = earned[op.address]
         /\ op.pc = "done" => op.ret = (IF rd["s.earned"].st = "ok"
                                        THEN "value" ELSE "error")

C8_Witness ==
  /\ pool # NoPool
  /\ pool.pool.type = "other"
  /\ op.kind = "earnedRewards"
  /\ op.ret = "value"
  /\ op.result = MaxEarned
  /\ earned[op.address] = MaxEarned

\* C9: the record summary returns has an underlyingBalanceOf field, holding
\* the converted staked balance, exactly when the staked-asset adapter
\* supports share conversion
C9_UnderlyingField ==
  (op.kind = "summary" /\ op.ret = "value") =>
    /\ ("underlyingBalanceOf" \in DOMAIN op.result) <=> pool.underlyingBalanceOf
    /\ pool.underlyingBalanceOf =>
         op.result.underlyingBalanceOf = BigNumber(CalcShare(rd["ub.bal"].val))

\* the upstream calls call c issued that failed, as their errors
FailedCallsOf(c) ==
  {p.err : p \in {q \in {calls[c].allowanceP, calls[c].balanceP} : q.st = "err"}}
  \cup {txs[i].err : i \in {j \in TxIdsOf(c) : txs[j].st = "err"}}

FailedReads == {rd[r].err : r \in {x \in ReadIds : rd[x].st = "err"}}

\* C10: an operation that has ended after one of the calls it issued failed
\* has ended in failure with the error of one of its failed calls; an
\* operation that returned a value has no failed and no pending call; only
\* approveAndStake ends with neither value nor error, and only when the
\* amount exceeds the balance read
C10_UpstreamFailure ==
  /\ op.pc = "done" =>
       /\ op.ret \in {"value", "error"}
       /\ FailedReads # {} => (op.ret = "error" /\ op.err \in FailedReads)
       /\ op.ret = "value" => \A r \in ReadIds : rd[r].st \in {"none", "ok"}
       /\ op.ret = "error" => op.err \in FailedReads
  /\ \A c \in DOMAIN calls :
       calls[c].pc = "done" =>
         /\ FailedCallsOf(c) # {} =>
              (calls[c].ret = "error" /\ calls[c].err \in FailedCallsOf(c))
         /\ calls[c].ret = "undefined" =>
              (PastReads(c) /\ calls[c].amntArg > calls[c].balance)
         /\ calls[c].ret = "error" =>
              calls[c].err \in FailedCallsOf(c) \cup {"No signer"}

C10_Witness ==
  /\ op.kind = "summary"
  /\ op.pc = "done"
  /\ rd["uv.priceReward"].st = "err"
  /\ rd["s.staked"].st = "ok"
  /\ op.ret = "error"
  /\ op.err = "uv.priceReward failed"

InitPercent ==
  /\ pool = fromPool(DefaultDescriptor)
  /\ isSigner = TRUE
  /\ wallet = [a \in Addresses |-> IF a = Me THEN MaxBal ELSE 0]
  /\ allowance = 0
  /\ staked \in [Addresses -> 0 .. MaxBal]
  /\ \E others \in 0 .. 1 :
       totalSupply = staked[Me] + staked["0xBob"] + others
  /\ earned = [a \in Addresses |-> 0]
  /\ chainSteps = 0
  /\ txs = << >>
  /\ calls = [c \in {"c1"} |-> IdleCall]
  /\ op = IdleOp
  /\ rd = NoReads
  /\ ubOut = NoneObj
  /\ poOut = NoneStr
  /\ uvOut = NonePromise
  /\ heap = << >>
  /\ returned = << >>

NextPercent ==
  \/ \E t \in 0 .. MaxBal : PercentageOfTotal(t)
  \/ \E a \in Addresses : PercentageOwnership(a)
  \/ \E r \in ReadIds : ReadResolves(r)
  \/ \E r \in ReadIds : ReadRejects(r)
  \/ \E a \in Addresses : ThirdPartyStake(a)

SpecPercent == InitPercent /\ [][NextPercent]_vars

\* the amount whose percentage is being computed
TokensOf == rd["po.bal"].val

\* C12: percentageOfTotal returns "0%" for a zero amount, without reading
\* the total supply, and for a non-zero amount when the total supply read
\* is zero; a zero total is never divided by
C12_ZeroPercent ==
  op.kind = "percentageOfTotal" =>
    /\ TokensOf = 0 =>
         /\ op.pc = "done" /\ op.ret = "value" /\ op.result = <<"0", "%">>
         /\ rd["po.total"].st = "none"
    /\ (rd["po.total"].st = "ok" /\ rd["po.total"].val = 0) =>
         (op.pc = "done" /\ op.ret = "value" /\ op.result = <<"0", "%">>)
    /\ (op.ret = "error") => rd["po.total"].st = "err"

C12_Witness ==
  /\ op.kind = "percentageOfTotal"
  /\ TokensOf = MaxBal
  /\ rd["po.total"].st = "ok"
  /\ rd["po.total"].val = 0
  /\ op.result = <<"0", "%">>

\* what percentageOfTotal makes of an amount on a chain that does not change
PercentageString(tokens, total) ==
  IF tokens = 0 \/ total = 0 THEN <<"0", "%">>
  ELSE FormatPercentage(tokens, total)

\* C14: on a chain that has not changed, percentageOwnership(address)
\* returns what percentageOfTotal returns for the staked balance of address
C14_OwnershipIsPercentageOfStaked ==
  chainSteps = 0 =>
    /\ (op.kind = "percentageOwnership" /\ op.ret = "value") =>
         op.result = PercentageString(staked[op.address], totalSupply)
    /\ (op.kind = "percentageOfTotal" /\ op.ret = "value") =>
         op.result = PercentageString(TokensOf, totalSupply)

C14_Witness ==
  /\ chainSteps = 0
  /\ op.kind = "percentageOwnership"
  /\ op.ret = "value"
  /\ staked[op.address] = 1
  /\ wallet[op.address] # 1
  /\ totalSupply = 3
  /\ op.result = <<"3", "3", ".", "3", "3", "%">>

\* the instances of the k-th returned collection, in order
InstancesOf(k) ==
  [i \in 1 .. Len(returned[k].ids) |-> heap[returned[k].ids[i]]]

HandlesOf(k) == {returned[k].ids[i] : i \in 1 .. Len(returned[k].ids)}

\* C13: every collection a cohort factory returned has the length and order
\* of its registry list, element i being the variant fromPool selects for
\* descriptor i; two collections of the same factory are equal element by
\* element and have no instance in common
C13_CohortFresh ==
  \A k \in 1 .. Len(returned) :
    LET list == data[returned[k].list] IN
      /\ Len(returned[k].ids) = Len(list)
      /\ Cardinality(HandlesOf(k)) = Len(list)
      /\ HandlesOf(k) \subseteq 1 .. Len(heap)
      /\ \A i \in 1 .. Len(list) :
           /\ InstancesOf(k)[i].pool = list[i]
           /\ InstancesOf(k)[i].earnedRewards =
                (IF list[i].type = "autocompounding" THEN "zero" ELSE "earned")
           /\ InstancesOf(k)[i] = fromPool(list[i])
      /\ \A j \in 1 .. Len(returned) :
           (j # k /\ returned[j].list = returned[k].list) =>
             /\ InstancesOf(j) = InstancesOf(k)
             /\ HandlesOf(j) \cap HandlesOf(k) = {}

C13_Witness ==
  \E j, k \in 1 .. Len(returned) :
    /\ j < k
    /\ returned[j].list = "activePools"
    /\ returned[k].list = "activePools"
    /\ Len(returned[k].ids) = 2
    /\ InstancesOf(k)[1].earnedRewards = "zero"
    /\ InstancesOf(k)[2].earnedRewards = "earned"
    /\ HandlesOf(j) # HandlesOf(k)

StakesOf(c) == {i \in TxIdsOf(c) : txs[i].kind = "stake"}

\* C15: every stake a call has submitted is covered: the allowance the call
\* read is at least the stake's amount, or the call submitted, before the
\* stake, an approval of the pool for at least that amount
C15_AllowanceCovers ==
  \A c \in DOMAIN calls :
    \A i \in StakesOf(c) :
      /\ calls[c].allowanceP.st = "ok"
      /\ \/ calls[c].allowanceP.val >= txs[i].amount
         \/ \E j \in ApprovalsOf(c) :
              /\ j < i
              /\ txs[j].target = PoolAddress
              /\ txs[j].amount >= txs[i].amount

C15_Witness ==
  \E c \in DOMAIN calls :
    \E i \in StakesOf(c) :
      /\ ~calls[c].approveForever
      /\ txs[i].amount = 2
      /\ calls[c].allowanceP.val < 2
      /\ \E j \in ApprovalsOf(c) : j < i /\ txs[j].amount = 2

\* the errors of the reads of call c that failed
ReadErrorsOf(c) ==
  {p.err : p \in {q \in {calls[c].allowanceP, calls[c].balanceP} : q.st = "err"}}

\* C16: a call has submitted a transaction, or waits for one, only with both
\* reads resolved; a call one of whose reads failed has submitted nothing,
\* returns no value, and ends failing with the error of a failed read
C16_ReadsBeforeTransactions ==
  \A c \in DOMAIN calls :
    /\ (TxIdsOf(c) # {} \/ calls[c].pc \in {"awaitApprove", "awaitStake"}) =>
         (calls[c].allowanceP.st = "ok" /\ calls[c].balanceP.st = "ok")
    /\ ReadErrorsOf(c) # {} =>
         /\ TxIdsOf(c) = {}
         /\ calls[c].pc \in {"reads", "done"}
         /\ calls[c].ret \in {"running", "error"}
         /\ calls[c].pc = "done" =>
              (calls[c].ret = "error" /\ calls[c].err \in ReadErrorsOf(c))

C16_Witness ==
  \E c \in DOMAIN calls :
    /\ calls[c].pc = "done"
    /\ calls[c].allowanceP.st = "ok"
    /\ calls[c].balanceP.st = "err"
    /\ calls[c].ret = "error"
    /\ calls[c].err = "balanceOf failed"
    /\ calls[c].amntArg = 1
    /\ wallet[Me] >= 1

\* call c was stopped by the signer check or by the funds check
StoppedByCheck(c) ==
  \/ calls[c].ret = "error" /\ calls[c].err = "No signer"
  \/ calls[c].ret = "undefined"

\* call c has submitted exactly its stake and at most one approval
OneStake(c) ==
  /\ Cardinality(StakesOf(c)) = 1
  /\ \A i \in StakesOf(c) : txs[i].amount = StakeAmount(c)
  /\ Cardinality(ApprovalsOf(c)) <= 1
  /\ TxIdsOf(c) = StakesOf(c) \cup ApprovalsOf(c)

\* a call that failed because its approval failed has submitted its stake
StakeDespiteApproval(c) ==
  (/\ calls[c].ret = "error"
   /\ calls[c].approveTx # 0
   /\ txs[calls[c].approveTx].st = "err") =>
    (calls[c].stakeTx \in StakesOf(c))

\* C17 as stated: a finished call has submitted nothing if the signer check
\* or the funds check stopped it, and otherwise exactly one stake of the
\* defaulted amount and at most one approval
C17_TransactionsPerCall ==
  \A c \in DOMAIN calls :
    /\ calls[c].pc = "done" =>
         (IF StoppedByCheck(c) THEN TxIdsOf(c) = {} ELSE OneStake(c))
    /\ StakeDespiteApproval(c)

\* C17: a finished call has submitted nothing if the signer check, a failed
\* read or the funds check stopped it, and otherwise exactly one stake of
\* the defaulted amount and at most one approval; the stake is submitted
\* even when the approval fails
C17_TransactionsPerCallOrReadFailure ==
  \A c \in DOMAIN calls :
    /\ calls[c].pc \in {"awaitApprove", "awaitStake", "done"} =>
         (IF StoppedByCheck(c) \/ ReadErrorsOf(c) # {}
          THEN TxIdsOf(c) = {} ELSE OneStake(c))
    /\ StakeDespiteApproval(c)

C17_Witness ==
  \E c \in DOMAIN calls :
    /\ calls[c].pc = "done"
    /\ calls[c].ret = "error"
    /\ calls[c].err = "approve failed"
    /\ calls[c].stakeTx \in StakesOf(c)
    /\ txs[calls[c].stakeTx].amount = StakeAmount(c)
    /\ Cardinality(TxIdsOf(c)) = 2

\* the reads of the staked balance one summary makes
StakedReads == {"s.staked", "ub.bal", "po.bal", "uv.staked"}

\* C18: summary's staked-balance reads each take the chain's value at the
\* moment they resolve, none is pinned to another's; the record returned has
\* stakedBalance from its own read while percentageOwnership and usdValueOf
\* are computed from the reads percentageOwnership and usdValueOf made
C18_SummaryNotAtomic ==
  /\ []((op.kind = "summary" /\ op.ret = "value") =>
          /\ op.result.stakedBalance = rd["s.staked"].val
          /\ op.result.percentageOwnership =
               PercentageString(rd["po.bal"].val, rd["po.total"].val)
          /\ op.result.usdValueOf =
               LpPrice * rd["uv.staked"].val + RewardPrice * rd["uv.earned"].val)
  /\ [][\A r \in StakedReads :
          (rd[r].st = "pending" /\ rd'[r].st = "ok") =>
            rd'[r].val = staked[op.address]]_vars

C18_Witness ==
  /\ op.kind = "summary"
  /\ op.ret = "value"
  /\ chainSteps > 0
  /\ op.result.stakedBalance = 1
  /\ rd["po.bal"].val = 2
  /\ op.result.percentageOwnership = <<"5", "0", ".", "0", "%">>
  /\ rd["uv.staked"].val = 2
  /\ op.result.usdValueOf = LpPrice * 2 + RewardPrice * rd["uv.earned"].val

\* C19: once constructed the instance never changes: its contract address
\* is its descriptor's address, and its descriptor, name, token adapters and
\* variant stay what construction made of the descriptor, whatever
\* operations run; only the chain's state moves
C19_Identity ==
  /\ [](pool # NoPool =>
          /\ pool.address = pool.pool.address
          /\ pool.pool \in LifeDescriptors
          /\ pool = fromPool(pool.pool))
  /\ [][pool # NoPool => pool' = pool]_vars

C19_Witness ==
  /\ pool # NoPool
  /\ pool.earnedRewards = "zero"
  /\ calls["c1"].pc = "idle"
  /\ staked[Me] >= 2
  /\ op.kind = "summary"
  /\ op.ret = "value"
  /\ op.result.stakedBalance >= 2
  /\ op.result.address = pool.pool.address

====
